---- MODULE Spec2Model ----
(***************************************************************************)
(* The `out` operation of the ChartMuseum resource (src/out.ts) as a state *)
(* machine.  One run of the process is one behaviour: the position `pc`    *)
(* walks through the stages of out() and of the main IIFE.  Everything the *)
(* process reads from outside (argv, stdin, the file system, the exit      *)
(* status and output of a subprocess, an HTTP response) is an input drawn  *)
(* from a small set at the step that reads it.  Everything the process     *)
(* does to the outside (subprocesses spawned, HTTP requests sent, files    *)
(* and directories created or removed, stdout, stderr, exit code) is       *)
(* recorded.                                                               *)
(*                                                                         *)
(* Strings that hold a version are modelled as [v, nl]: v is the dotted    *)
(* number sequence (<<1,0,0>> for "1.0.0", <<1>> for "1") and nl the       *)
(* number of line breaks that follow it.                                   *)
(***************************************************************************)
EXTENDS Integers, Sequences, FiniteSets, TLC

---------------------------------------------------------------------------
(* Bounds of the model *)

\* minor versions 0..MaxMinor of major version 1 (plus 2.0.0)
MaxMinor == 1
\* at most MaxRepos entries in params.dependency_repos
MaxRepos == 2
\* at most MaxNewlines line breaks at the end of the version file
MaxNewlines == 2

---------------------------------------------------------------------------
(* Exit codes passed to process.exit *)

EXIT_OK == 0
EXIT_UNEXPECTED == 1
EXIT_ARGS == 102
EXIT_STDIN == 502
EXIT_RANGE == 104
EXIT_REPO_ADD == 193
EXIT_NO_KEY == 332
EXIT_PACKAGE == 121
EXIT_NOT_FOUND == 110
EXIT_INSPECT == 120
EXIT_UPLOAD == 124
EXIT_UPLOAD_ERROR == 602
EXIT_NOT_SAVED == 603
EXIT_FETCH == 710
EXIT_MISMATCH == 203
HTTP_CREATED == 201

---------------------------------------------------------------------------
(* Values *)

\* JavaScript null / undefined, where an object or a version string is expected
Null == [null |-> TRUE]
\* JavaScript null / undefined, where any other string is expected
Undefined == "undefined"

\* the string "a.b.c" with nl line breaks after it
Text(v, n) == [v |-> v, nl |-> n]
Str(v) == Text(v, 0)

SemVers == {<<1, b, 0>> : b \in 0..MaxMinor} \cup {<<2, 0, 0>>}
\* "1" is not a semantic version
VersionTexts == SemVers \cup {<<1>>}
VersionStrings == {Str(v) : v \in VersionTexts}

\* version ranges: ^1.0.0, ~1.0.0
Ranges == {[op |-> o, v |-> <<1, 0, 0>>] : o \in {"^", "~"}}

\* tri-state flags of the request: absent, true, false
Flags == {"absent", "true", "false"}

---------------------------------------------------------------------------
(* semver.satisfies (library semver, imported at src/out.ts:8) *)

Lt(a, b) ==
    \/ a[1] < b[1]
    \/ a[1] = b[1] /\ a[2] < b[2]
    \/ a[1] = b[1] /\ a[2] = b[2] /\ a[3] < b[3]

Gte(a, b) == ~Lt(a, b)

\* upper bound (exclusive) of ^v: the next value of the left-most non-zero part
CaretUpper(v) ==
    IF v[1] > 0 THEN <<v[1] + 1, 0, 0>>
    ELSE IF v[2] > 0 THEN <<0, v[2] + 1, 0>>
    ELSE <<0, 0, v[3] + 1>>

\* upper bound (exclusive) of ~v: the next minor version
TildeUpper(v) == <<v[1], v[2] + 1, 0>>

InRange(v, r) ==
    CASE r.op = "*" -> TRUE
      [] r.op = "=" -> v = r.v
      [] r.op = "^" -> Gte(v, r.v) /\ Lt(v, CaretUpper(r.v))
      [] r.op = "~" -> Gte(v, r.v) /\ Lt(v, TildeUpper(r.v))
      [] OTHER -> FALSE

\* the version is parsed after trimming white space; a version that does
\* not parse satisfies nothing
satisfies(version, range) == Len(version.v) = 3 /\ InRange(version.v, range)

---------------------------------------------------------------------------
(* The request read from stdin *)

\* an entry of params.dependency_repos
Repositories ==
    { [basic_auth |-> FALSE, tls_ca_cert |-> FALSE, tls_client |-> FALSE],
      [basic_auth |-> TRUE, tls_ca_cert |-> TRUE, tls_client |-> TRUE] }

RECURSIVE SeqsUpTo(_, _)
SeqsUpTo(S, n) ==
    IF n = 0 THEN {<<>>}
    ELSE LET shorter == SeqsUpTo(S, n - 1)
         IN  shorter \cup {Append(q, x) : q \in {t \in shorter : Len(t) = n - 1}, x \in S}

AllRequests ==
    [ version_range : {Null} \cup Ranges,
      harbor_api : Flags,
      basic_auth_username : BOOLEAN,
      basic_auth_password : BOOLEAN,
      version : {Null} \cup {Str(v) : v \in SemVers},
      version_file : BOOLEAN,
      sign : Flags,
      key_data : BOOLEAN,
      key_file : BOOLEAN,
      dependency_repos : SeqsUpTo(Repositories, MaxRepos) ]

\* the request that leaves out every optional field
Plain ==
    [ version_range |-> Null, harbor_api |-> "absent", basic_auth_username |-> FALSE,
      basic_auth_password |-> FALSE, version |-> Null,
      version_file |-> FALSE, sign |-> "absent", key_data |-> FALSE, key_file |-> FALSE,
      dependency_repos |-> <<>> ]

\* the fields of a request by the stage of out() that reads them
FieldGroups ==
    { {"version", "version_file", "version_range"},
      {"sign", "key_data", "key_file"},
      {"harbor_api", "basic_auth_username", "basic_auth_password"},
      {"dependency_repos"} }

Differs(r, g) == \E f \in g : r[f] # Plain[f]

\* The requests of the model: those that differ from the plain request in
\* at most two groups of fields.  out() reads key_data and key_file only
\* when sign is true: the requests that differ in them alone when it is not
\* are taken once.  createFetchHeaders treats the user name and the password
\* alike: of the two requests with only one of them, the one with the user
\* name is taken.
Requests ==
    {r \in AllRequests :
        /\ Cardinality({g \in FieldGroups : Differs(r, g)}) <= 2
        /\ r.basic_auth_password => r.basic_auth_username
        /\ r.sign # "true" => ~r.key_data /\ ~r.key_file}

\* stdin holds either text that is no JSON or the JSON text of a request
Malformed == [malformed |-> TRUE]
StdinTexts == {Malformed} \cup {[json |-> r] : r \in Requests}

---------------------------------------------------------------------------
(* What the process finds outside itself *)

\* what params.version_file names: nothing, a directory, or a file with a
\* version followed by line breaks
VersionFiles ==
    {[kind |-> "missing"], [kind |-> "directory"]}
        \cup {[kind |-> "file", content |-> Text(v, n)] : v \in VersionTexts, n \in 0..MaxNewlines}

\* a chart archive: the version in its Chart.yaml and its size in bytes
ArchiveSizes == {1, 2}
Archives == [version : {Str(v) : v \in SemVers}, size : ArchiveSizes]

\* Chart.yaml of a chart directory
ChartInfos == [name : {"chart"}, version : {Str(v) : v \in SemVers}]

\* lines gpg writes to its stderr, as sequences of words:
\* "gpg: key 4F2E: secret key imported", "gpg: secret key imported: 1",
\* "gpg: keybox created"
GpgLines ==
    { <<"gpg:", "key", "4F2E", ":", "secret", "key", "imported">>,
      <<"gpg:", "secret", "key", "imported", ":", "1">>,
      <<"gpg:", "keybox", "created">> }

GpgResults == [code : {0, 2}, stderr : SeqsUpTo(GpgLines, 2)]

\* lines of the output of helm inspect chart
InspectLine(k, s) == [key |-> k, val |-> s]
InspectOutputs(a) ==
    { <<InspectLine("name", Null), InspectLine("version", a.version)>>,
      <<InspectLine("appVersion", Str(<<0, 1, 0>>)), InspectLine("version", a.version)>>,
      <<InspectLine("appVersion", Str(<<0, 1, 0>>)), InspectLine("name", Null)>> }

\* responses of the repository server: 201, another 2xx status, the 409 of
\* an existing version, and a status that is a multiple of 256
PostStatuses == {HTTP_CREATED, 200, 409, 512}
\* (a body that is no JSON has no fields)
PostBodies ==
    { [json |-> FALSE, error |-> Undefined, saved |-> "absent"],
      [json |-> TRUE, error |-> Undefined, saved |-> "true"],
      [json |-> TRUE, error |-> Undefined, saved |-> "false"],
      [json |-> TRUE, error |-> Undefined, saved |-> "absent"],
      [json |-> TRUE, error |-> Undefined, saved |-> "string"],
      [json |-> TRUE, error |-> "error", saved |-> "true"] }


Metadata(v) == [version |-> v, digest |-> "digest", created |-> "created", description |-> "description"]
ChartJsons ==
    { [version |-> v, digest |-> "digest", created |-> "created", description |-> "description",
       appVersion |-> "appVersion", home |-> "home", tillerVersion |-> "tillerVersion",
       metadata |-> Null] : v \in {Str(s) : s \in SemVers} }
    \cup
    { [version |-> Null, digest |-> Undefined, created |-> Undefined, description |-> Undefined,
       appVersion |-> "appVersion", home |-> Undefined, tillerVersion |-> Undefined,
       metadata |-> Metadata(v)] : v \in {Str(s) : s \in SemVers} }

---------------------------------------------------------------------------
VARIABLES
    pc,              \* position in out() / the main IIFE
    argvLength,      \* process.argv.length
    stdin,           \* contents of the standard input stream
    request,         \* the parsed OutRequest
    headers,         \* the Headers object of out()
    version,         \* the local variable version of out()
    repoIdx,         \* number of completed iterations of the dependency_repos loop
    helmRepos,       \* indices of the repositories helm has registered
    disk,            \* temporary files and directories that exist
    chartInfo,       \* Chart.yaml of the chart directory
    cmd,             \* the helm package command being built
    keyFile,         \* the local variable keyFile
    gpgResult,       \* exit code and stderr of gpg, while importGpgKey is pending
    archive,         \* the contents of the file chartFile
    chartFile,       \* the local variable chartFile
    chartFileStat,   \* the local variable chartFileStat
    cleanupCallback, \* the local variable cleanupCallback
    spawned,         \* subprocesses run so far, in order
    http,            \* HTTP requests sent so far, in order
    postResult,      \* the response to the upload
    postResultJson,  \* the decoded body of the response to the upload
    chartJson,       \* the decoded body of the metadata response
    result,          \* what out() resolved with
    stdout, stderr,  \* what was written to the two streams
    exitCode,        \* the code given to process.exit (once pc = "exit")
    thrown           \* the value out() rejected with (once pc = "threw")

control == <<pc, stderr, exitCode, thrown>>
inputs == <<argvLength, stdin>>
parsed == <<request, headers, version>>
repos == <<repoIdx, helmRepos>>
chart == <<chartInfo, cmd, keyFile, gpgResult, archive, chartFile, chartFileStat, cleanupCallback>>
net == <<http, postResult, postResultJson, chartJson, result>>

vars == <<control, inputs, parsed, repos, disk, chart, spawned, net, stdout>>

\* a Headers object without entries
NoHeaders == [Authorization |-> Undefined, ContentLength |-> Null, ContentDisposition |-> Null]

Init ==
    /\ pc = "start"
    /\ \/ argvLength = 3 /\ stdin \in StdinTexts
       \/ argvLength \in {2, 4} /\ stdin = Malformed
    /\ request = Null
    /\ headers = NoHeaders
    /\ version = Null
    /\ repoIdx = 0
    /\ helmRepos = {}
    /\ disk = {}
    /\ chartInfo = Null
    /\ cmd = Null
    /\ keyFile = Undefined
    /\ gpgResult = Null
    /\ archive = Null
    /\ chartFile = Null
    /\ chartFileStat = Null
    /\ cleanupCallback = Undefined
    /\ spawned = <<>>
    /\ http = <<>>
    /\ postResult = Null
    /\ postResultJson = Null
    /\ chartJson = Null
    /\ result = Null
    /\ stdout = <<>>
    /\ stderr = <<>>
    /\ exitCode = 0
    /\ thrown = Null

---------------------------------------------------------------------------
(* Leaving a stage *)

\* the exit status the parent process observes: the low eight bits of the
\* code given to process.exit
ExitStatus(code) == code % 256

\* process.exit(code) after writing msgs to stderr
Exit(code, msgs) ==
    /\ pc' = "exit"
    /\ exitCode' = code
    /\ stderr' = stderr \o msgs
    /\ thrown' = thrown

\* out() rejects with e after writing msgs to stderr
Throw(e, msgs) ==
    /\ pc' = "threw"
    /\ thrown' = e
    /\ stderr' = stderr \o msgs
    /\ exitCode' = exitCode

\* out() goes on at position p after writing msgs to stderr
Goto(p, msgs) ==
    /\ pc' = p
    /\ stderr' = stderr \o msgs
    /\ UNCHANGED <<exitCode, thrown>>

Error(m) == [kind |-> "Error", message |-> m]

\* JSON.stringify of a thrown value: a string is quoted, an Error object
\* has no enumerable property
JSONstringify(e) == IF e.kind = "string" THEN e.message ELSE "{}"

---------------------------------------------------------------------------
(* Argument check, request, version resolution, range check *)

\* out(), the check of process.argv
CheckArgs ==
    /\ pc = "start"
    /\ IF argvLength # 3
       THEN Exit(EXIT_ARGS, <<"Expected exactly one argument (root)">>)
       ELSE Goto("stdin", <<>>)
    /\ UNCHANGED <<inputs, parsed, repos, disk, chart, spawned, net, stdout>>

createFetchHeaders(req) ==
    [NoHeaders EXCEPT !.Authorization =
        IF req.basic_auth_username /\ req.basic_auth_password THEN "Basic" ELSE Undefined]

\* out(), the request is read and parsed; headers, agent and version are set
RetrieveRequest ==
    /\ pc = "stdin"
    /\ IF stdin = Malformed
       THEN /\ Exit(EXIT_STDIN, <<"Unable to retrieve JSON data from stdin.", "{}">>)
            /\ UNCHANGED parsed
       ELSE /\ request' = stdin.json
            /\ headers' = createFetchHeaders(stdin.json)
            /\ version' = stdin.json.version
            /\ Goto("version", <<>>)
    /\ UNCHANGED <<inputs, repos, disk, chart, spawned, net, stdout>>

\* (await readFile(versionFile)).toString().replace(/\r?\n/, ""): the first
\* line break is removed
readVersionFile(content) == Text(content.v, IF content.nl > 0 THEN content.nl - 1 ELSE 0)

\* out(), params.version_file
ResolveVersion ==
    /\ pc = "version"
    /\ IF ~request.version_file
       THEN Goto("range", <<>>) /\ UNCHANGED version
       ELSE \E f \in VersionFiles :
              CASE f.kind = "missing" -> Throw(Error("ENOENT"), <<>>) /\ UNCHANGED version
                [] f.kind = "file" -> Goto("range", <<>>) /\ version' = readVersionFile(f.content)
                [] OTHER -> Goto("range", <<>>) /\ UNCHANGED version
    /\ UNCHANGED <<inputs, request, headers, repos, disk, chart, spawned, net, stdout>>

\* the negation of semver.satisfies is lost
RangeViolated_Inverted(v, range) == v # Null /\ range # Null /\ satisfies(v, range)

\* the condition under which out() exits with the range violation
RangeViolated(v, range) == v # Null /\ range # Null /\ ~satisfies(v, range)

\* out(), source.version_range
CheckVersionRange ==
    /\ pc = "range"
    /\ IF RangeViolated(version, request.version_range)
       THEN Exit(EXIT_RANGE, <<"params.version does not satisfy contents of source.version_range">>)
       ELSE Goto("repos", <<>>)
    /\ UNCHANGED <<inputs, parsed, repos, disk, chart, spawned, net, stdout>>

---------------------------------------------------------------------------
(* Dependency repositories *)

Entry(path, n) == [path |-> path, n |-> n]

\* the temporary directories and files one iteration creates for repo number n
StagedTls(repo, n) ==
    (IF repo.tls_ca_cert THEN {Entry("caDir", n), Entry("caDir/ca.pem", n)} ELSE {})
        \cup (IF repo.tls_client
              THEN {Entry("tlsDir", n), Entry("tlsDir/cert.pem", n), Entry("tlsDir/key.pem", n)}
              ELSE {})

\* the helm repo add command for repo number n
addCmd(repo, n) ==
    [prog |-> "helm repo add", n |-> n, username |-> repo.basic_auth,
     caFile |-> repo.tls_ca_cert, certFile |-> repo.tls_client]

\* a failed registration unregisters the repositories added before it
Registered_RolledBack(hr, n, ok) == IF ok THEN hr \cup {n} ELSE {}

\* the repositories helm knows after helm repo add for repo number n has
\* exited: out() undoes nothing when it failed
Registered(hr, n, ok) == IF ok THEN hr \cup {n} ELSE hr

\* out(), one iteration of the loop over params.dependency_repos
AddHelmRepo ==
    /\ pc = "repos"
    /\ repoIdx < Len(request.dependency_repos)
    /\ LET n == repoIdx + 1
           repo == request.dependency_repos[n]
           intro == IF repoIdx = 0 THEN <<"Processing chart Helm Repo Dependencies...">> ELSE <<>>
       IN  /\ disk' = disk \cup StagedTls(repo, n)
           /\ spawned' = Append(spawned, addCmd(repo, n))
           /\ \/ /\ helmRepos' = Registered(helmRepos, n, TRUE)
                 /\ repoIdx' = n
                 /\ Goto("repos", intro \o <<"Performing helm add">>)
              \/ /\ helmRepos' = Registered(helmRepos, n, FALSE)
                 /\ repoIdx' = repoIdx
                 /\ Exit(EXIT_REPO_ADD, intro \o <<"Performing helm add", "Adding Helm Repo failed.">>)
    /\ UNCHANGED <<inputs, parsed, chart, net, stdout>>

---------------------------------------------------------------------------
(* The chart: directory or archive file *)

\* the name of an archive file: <name>-<version>.tgz
Base(name, v) == [name |-> name, version |-> v]
File(dir, base) == [dir |-> dir, base |-> base]

\* the size is not read from the file
lstatFile_NoSize(a) == [kind |-> "file", size |-> 0]

\* lstat of a regular file with the contents a
lstatFile(a) == [kind |-> "file", size |-> a.size]

\* the chart is looked at without waiting for the loop
ReposDone_Early(idx, rs) == TRUE

\* the loop over Object.entries(request.params.dependency_repos) has ended
ReposDone(idx, rs) == idx = Len(rs)

\* out(), lstat of params.chart and the choice between directory and file
LstatChart ==
    /\ pc = "repos"
    /\ ReposDone(repoIdx, request.dependency_repos)
    /\ \E kind \in {"missing", "directory", "file", "other"} :
         CASE kind = "missing" ->
                /\ Throw(Error("ENOENT"), <<"Processing chart">>)
                /\ UNCHANGED <<archive, chartFile, chartFileStat>>
           [] kind = "directory" ->
                /\ Goto("dir", <<"Processing chart">>)
                /\ chartFileStat' = [kind |-> "directory", size |-> 0]
                /\ UNCHANGED <<archive, chartFile>>
           [] kind = "file" ->
                \E a \in Archives :
                    /\ Goto("inspect", <<"Processing chart">>)
                    /\ archive' = a
                    /\ chartFile' = File("chartLocation", Base("chartLocation", Null))
                    /\ chartFileStat' = lstatFile(a)
           [] OTHER ->
                /\ Exit(EXIT_NOT_FOUND, <<"Processing chart", "Chart file not found.">>)
                /\ UNCHANGED <<archive, chartFile, chartFileStat>>
    /\ UNCHANGED <<inputs, parsed, repos, disk, chartInfo, cmd, keyFile, gpgResult,
                   cleanupCallback, spawned, net, stdout>>

\* where out() goes after the packaging command has been started to be built
AfterCmdBase(req) == IF req.sign = "true" THEN "sign" ELSE "package"

\* out(), the directory branch: Chart.yaml, the temp directory, the base of
\* the packaging command.  The --dependency-update switch changes only what
\* helm does, and what helm does is an input of HelmPackage.
LoadChartInfo ==
    /\ pc = "dir"
    /\ \/ /\ Throw(Error("ENOENT"), <<>>)
          /\ UNCHANGED <<disk, chartInfo, cmd, cleanupCallback>>
       \/ \E info \in ChartInfos :
            /\ chartInfo' = info
            /\ disk' = disk \cup {Entry("tmpDir", 0)}
            /\ cleanupCallback' = "tmpDir.cleanupCallback"
            /\ cmd' = [destination |-> "tmpDir", sign |-> FALSE, key |-> <<>>,
                       keyring |-> Undefined, version |-> Null]
            /\ Goto(AfterCmdBase(request), <<>>)
    /\ UNCHANGED <<inputs, parsed, repos, keyFile, gpgResult, archive, chartFile,
                   chartFileStat, spawned, net, stdout>>

\* the condition under which out() exits for want of a key
NoKeyGiven(req) == ~req.key_data /\ ~req.key_file

\* out(), the key file and the new GNUPGHOME
PrepareSigning ==
    /\ pc = "sign"
    /\ IF NoKeyGiven(request)
       THEN /\ Exit(EXIT_NO_KEY, <<"Either key_data or key_file must be specified, when 'sign' is set to true.">>)
            /\ UNCHANGED <<disk, keyFile>>
       ELSE /\ keyFile' = IF request.key_data THEN "tmpDir/gpg-key.asc" ELSE "params.key_file"
            /\ disk' = disk \cup (IF request.key_data THEN {Entry("tmpDir/gpg-key.asc", 0)} ELSE {})
                            \cup {Entry("gpgHome", 0)}
            /\ Goto("import", <<"Using new empty temporary GNUPGHOME">>)
    /\ UNCHANGED <<inputs, parsed, repos, chartInfo, cmd, gpgResult, archive, chartFile,
                   chartFileStat, cleanupCallback, spawned, net, stdout>>

\* line.includes("secret key imported")
IncludesImported(line) ==
    \E i \in 1..Len(line) :
        i + 2 <= Len(line) /\ SubSeq(line, i, i + 2) = <<"secret", "key", "imported">>

\* /^gpg\: key (.*?)\: secret key imported$/.exec(line)
MatchesKeyLine(line) ==
    /\ Len(line) >= 6
    /\ SubSeq(line, 1, 2) = <<"gpg:", "key">>
    /\ SubSeq(line, Len(line) - 3, Len(line)) = <<":", "secret", "key", "imported">>

StringError(m) == [kind |-> "string", message |-> m]

\* an import without a key line resolves with an empty key id
importGpgKey_SilentSkip(res) ==
    IF res.code # 0
    THEN [ok |-> FALSE, keyId |-> <<>>, e |-> Error("gpg import returned exit code")]
    ELSE LET hits == {i \in 1..Len(res.stderr) : MatchesKeyLine(res.stderr[i])}
         IN  IF hits = {}
             THEN [ok |-> TRUE, keyId |-> <<>>, e |-> Null]
             ELSE LET keyIdLine == res.stderr[CHOOSE i \in hits : \A j \in hits : i <= j]
                  IN  [ok |-> TRUE, keyId |-> SubSeq(keyIdLine, 3, Len(keyIdLine) - 4), e |-> Null]

\* importGpgKey, the close handler: what the promise settles with
importGpgKey(res) ==
    IF res.code # 0
    THEN [ok |-> FALSE, keyId |-> <<>>, e |-> Error("gpg import returned exit code")]
    ELSE LET hits == {i \in 1..Len(res.stderr) : IncludesImported(res.stderr[i])}
         IN  IF hits = {}
             THEN [ok |-> FALSE, keyId |-> <<>>,
                   e |-> StringError("Unable to determine Key ID after successful import: Line with key ID not found.")]
             ELSE LET keyIdLine == res.stderr[CHOOSE i \in hits : \A j \in hits : i <= j]
                  IN  IF ~MatchesKeyLine(keyIdLine)
                      THEN [ok |-> FALSE, keyId |-> <<>>,
                            e |-> StringError("Unable to determine Key ID after successful import: Regex match failure.")]
                      ELSE [ok |-> TRUE, keyId |-> SubSeq(keyIdLine, 3, Len(keyIdLine) - 4), e |-> Null]

\* importGpgKey, the gpg process is spawned and runs until it closes
SpawnGpg ==
    /\ pc = "import"
    /\ \E res \in GpgResults :
         /\ gpgResult' = res
         /\ spawned' = Append(spawned, [prog |-> "gpg --import", keyFile |-> keyFile])
         /\ Goto("imported", <<"Importing GPG private key">>)
    /\ UNCHANGED <<inputs, parsed, repos, disk, chartInfo, cmd, keyFile, archive, chartFile,
                   chartFileStat, cleanupCallback, net, stdout>>

\* deltree(gpgHome) at the end of the try block instead of in finally
KeyringCleanup_OnSuccessOnly(d, ok) == IF ok THEN d \ {Entry("gpgHome", 0)} ELSE d

\* the signing step leaves the keyring behind it: deltree(gpgHome) in the
\* finally block, whether the import resolved (ok) or rejected
KeyringCleanup(d, ok) == d \ {Entry("gpgHome", 0)}

\* out(), the import has settled: the signing switches, or the catch
\* blocks, and the finally block
SettleImport ==
    /\ pc = "imported"
    /\ LET r == importGpgKey(gpgResult)
       IN  /\ gpgResult' = Null
           /\ disk' = KeyringCleanup(disk, r.ok)
           /\ IF r.ok
              THEN /\ cmd' = [cmd EXCEPT !.sign = TRUE, !.key = r.keyId,
                                         !.keyring = "gpgHome/secring.gpg"]
                   /\ Goto("package", <<"GPG key imported successfully.",
                                        "Removing temporary GNUPGHOME">>)
              ELSE /\ UNCHANGED cmd
                   /\ Throw(r.e, <<"Importing of GPG key failed.",
                                   "Signing of chart with GPG private key failed",
                                   "Removing temporary GNUPGHOME">>)
    /\ UNCHANGED <<inputs, parsed, repos, chartInfo, keyFile, archive, chartFile, chartFileStat,
                   cleanupCallback, spawned, net, stdout>>

\* the version helm package gives the archive
PackagedVersion(v, info) == IF v # Null THEN v ELSE info.version

\* the command line is given to a shell: a line break in it ends the command
\* before the chart location, and helm package fails
PackageOutcomes(c) == IF c.version # Null /\ c.version.nl > 0 THEN {"fail"} ELSE {"ok", "fail"}

\* out(), helm package and the lstat of the archive it wrote
HelmPackage ==
    /\ pc = "package"
    /\ LET c == IF version # Null THEN [cmd EXCEPT !.version = version] ELSE cmd
       IN  /\ cmd' = c
           /\ spawned' = Append(spawned, [prog |-> "helm package", sign |-> c.sign, key |-> c.key,
                                          keyring |-> c.keyring, version |-> c.version])
           /\ \E outcome \in PackageOutcomes(c) :
                IF outcome = "fail"
                THEN /\ Exit(EXIT_PACKAGE, <<"Performing helm package", "Packaging of chart file failed.">>)
                     /\ UNCHANGED <<disk, archive, chartFile, chartFileStat>>
                ELSE \E size \in ArchiveSizes :
                       /\ archive' = [version |-> PackagedVersion(c.version, chartInfo), size |-> size]
                       /\ disk' = disk \cup {Entry("tmpDir/archive", 0)}
                       /\ chartFile' = File("tmpDir", Base(chartInfo.name, PackagedVersion(version, chartInfo)))
                       /\ chartFileStat' = lstatFile(archive')
                       /\ Goto("inspect", <<"Performing helm package">>)
    /\ UNCHANGED <<inputs, parsed, repos, chartInfo, keyFile, gpgResult, cleanupCallback, net,
                   stdout>>

\* inspectionResult.split(/\r?\n/).find(line => line.startsWith("version:"))
VersionLines(out) == {i \in 1..Len(out) : out[i].key = "version"}

\* versionLine.split(/version:\s*/)[1]
InspectedVersion(out) == out[CHOOSE i \in VersionLines(out) : \A j \in VersionLines(out) : i <= j].val

\* the inspected version is taken only when no version was known
Reassign_KeepKnown(known, inspected) == IF known # Null THEN known ELSE inspected

\* version = versionLine.split(/version:\s*/)[1]: the inspected version
\* replaces whatever version was known before
Reassign(known, inspected) == inspected

\* out(), helm inspect chart
HelmInspect ==
    /\ pc = "inspect"
    /\ spawned' = Append(spawned, [prog |-> "helm inspect chart", file |-> chartFile])
    /\ \/ /\ Exit(EXIT_INSPECT, <<"Inspecting chart file", "Unable to inspect Helm Chart file">>)
          /\ UNCHANGED version
       \/ \E out \in InspectOutputs(archive) :
            IF VersionLines(out) = {}
            THEN /\ Exit(EXIT_PACKAGE, <<"Inspecting chart file",
                                        "Unable to parse version information from Helm Chart inspection result.">>)
                 /\ UNCHANGED version
            ELSE /\ version' = Reassign(version, InspectedVersion(out))
                 /\ Goto("upload", <<"Inspecting chart file">>)
    /\ UNCHANGED <<inputs, request, headers, repos, disk, chart, net, stdout>>

---------------------------------------------------------------------------
(* Upload and verification *)

\* String(n)
String(n) == [digits |-> n]

\* the two headers are appended in both dialects
UploadHeaders_Always(req, h, file, stat) ==
    [h EXCEPT !.ContentLength = String(stat.size),
              !.ContentDisposition = [filename |-> file.base]]

\* the headers of the upload: Content-length and Content-Disposition are
\* appended for the plain dialect only
UploadHeaders(req, h, file, stat) ==
    IF req.harbor_api = "true"
    THEN h
    ELSE [h EXCEPT !.ContentLength = String(stat.size),
                   !.ContentDisposition = [filename |-> file.base]]

\* the body of the upload: a form with the field chart, or the file stream
UploadBody(req, file, content) ==
    IF req.harbor_api = "true"
    THEN [kind |-> "multipart", fields |-> <<"chart">>, file |-> file, content |-> content]
    ELSE [kind |-> "stream", fields |-> <<>>, file |-> file, content |-> content]

\* a failed upload is tried a second time
GiveUp_AfterSecond(attempts) == attempts >= 2

\* the catch around the upload: out() gives up after the first attempt
GiveUp(attempts) == TRUE

\* out(), the upload request and the arrival of its response
Upload ==
    /\ pc = "upload"
    /\ headers' = UploadHeaders(request, headers, chartFile, chartFileStat)
    /\ \E force \in {"absent", "true"} :
         http' = Append(http, [method |-> "POST", url |-> "server_url", force |-> (force = "true"),
                               version |-> Null, headers |-> headers',
                               body |-> UploadBody(request, chartFile, archive)])
    /\ \/ /\ IF GiveUp(Len(http'))
             THEN Exit(EXIT_UPLOAD, <<"Uploading chart file", "Upload of chart file has failed.", "{}">>)
             ELSE Goto("upload", <<"Uploading chart file">>)
          /\ UNCHANGED postResult
       \/ \E status \in PostStatuses :
            /\ postResult' = [status |-> status]
            /\ Goto("posted", <<"Uploading chart file">>)
    /\ UNCHANGED <<inputs, request, version, repos, disk, chart, spawned, postResultJson,
                   chartJson, result, stdout>>

\* every 2xx status is taken for a success
Rejected_Only4xx5xx(status) == status >= 400

\* postResult.status != 201
Rejected(status) == status # HTTP_CREATED

\* the error field is honoured only when the chart was not saved
HasError_UnlessSaved(json) == json.error # Undefined /\ json.saved # "true"

\* postResultJson.error != null
HasError(json) == json.error # Undefined

\* only saved === false counts as not saved
NotSaved_OnlyFalse(json) == json.saved = "false"

\* postResultJson.saved !== true
NotSaved(json) == json.saved # "true"

\* out(), the status and the body of the upload response
CheckPostResult ==
    /\ pc = "posted"
    /\ IF Rejected(postResult.status)
       THEN /\ Exit(postResult.status, <<"An error occured while uploading the chart (status)">>)
            /\ UNCHANGED postResultJson
       ELSE \E json \in PostBodies :
              IF ~json.json
              THEN /\ Throw(Error("invalid json response body"), <<>>)
                   /\ UNCHANGED postResultJson
              ELSE /\ postResultJson' = json
                   /\ IF HasError(json)
                      THEN Exit(EXIT_UPLOAD_ERROR, <<"An error occured while uploading the chart (error)">>)
                      ELSE IF NotSaved(json)
                      THEN Exit(EXIT_NOT_SAVED, <<"Helm chart has not been saved.">>)
                      ELSE Goto("fetch", <<"Helm Chart has been uploaded.">>)
    /\ UNCHANGED <<inputs, parsed, repos, disk, chart, spawned, http, postResult, chartJson,
                   result, stdout>>

\* the Headers object of the upload is used again
fetchHeaders_Reused(req, used) == used

\* headers = createFetchHeaders(request): new headers for the fetch
fetchHeaders(req, used) == createFetchHeaders(req)

\* out(), the metadata of the chart is fetched again
FetchChartInfo ==
    /\ pc = "fetch"
    /\ headers' = fetchHeaders(request, headers)
    /\ http' = Append(http, [method |-> "GET", url |-> "server_url/chart_name/version", force |-> FALSE,
                             version |-> version, headers |-> headers', body |-> Null])
    /\ \/ /\ Throw(Error("request failed"), <<"Fetching chart data">>)
          /\ UNCHANGED chartJson
       \/ /\ Exit(EXIT_FETCH, <<"Fetching chart data", "Download of chart information failed.", "body">>)
          /\ UNCHANGED chartJson
       \/ \E json \in ChartJsons :
            /\ chartJson' = json
            /\ Goto("verify", <<"Fetching chart data">>)
    /\ UNCHANGED <<inputs, request, version, repos, disk, chart, spawned, postResult,
                   postResultJson, result, stdout>>

\* the version of the fetched metadata, by dialect
FetchedVersion(req, json) == IF req.harbor_api = "true" THEN json.metadata.version ELSE json.version

Field(n, v) == [name |-> n, value |-> v]

\* the plain projection is used for both dialects
Response_PlainOnly(req, json) ==
    [version |-> [version |-> json.version, digest |-> json.digest],
     metadata |-> << Field("created", json.created),
                     Field("description", json.description),
                     Field("appVersion", json.appVersion),
                     Field("home", json.home),
                     Field("tillerVersion", json.tillerVersion) >>]

\* the OutResponse, by dialect
Response(req, json) ==
    IF req.harbor_api = "true"
    THEN [version |-> [version |-> json.metadata.version, digest |-> json.metadata.digest],
          metadata |-> << Field("created", json.metadata.created),
                          Field("description", json.metadata.description),
                          Field("appVersion", json.appVersion) >>]
    ELSE [version |-> [version |-> json.version, digest |-> json.digest],
          metadata |-> << Field("created", json.created),
                          Field("description", json.description),
                          Field("appVersion", json.appVersion),
                          Field("home", json.home),
                          Field("tillerVersion", json.tillerVersion) >>]

\* a fetched body without the version field is let through
Mismatch_OnlyWhenFetched(v, fetched) == fetched # Null /\ v # fetched

\* version != chartJson.metadata.version, version != chartJson.version
Mismatch(v, fetched) == v # fetched

\* out(), the fetched version is compared and the response is built
VerifyVersion ==
    /\ pc = "verify"
    /\ IF request.harbor_api = "true" /\ chartJson.metadata = Null
       THEN /\ Throw(Error("TypeError: Cannot read property 'version' of undefined"), <<>>)
            /\ UNCHANGED result
       ELSE IF Mismatch(version, FetchedVersion(request, chartJson))
       THEN /\ Exit(EXIT_MISMATCH, <<"Version mismatch in uploaded Helm Chart.">>)
            /\ UNCHANGED result
       ELSE /\ result' = [data |-> Response(request, chartJson), cleanupCallback |-> cleanupCallback]
            /\ Goto("returned", <<>>)
    /\ UNCHANGED <<inputs, parsed, repos, disk, chart, spawned, http, postResult,
                   postResultJson, chartJson, stdout>>

---------------------------------------------------------------------------
(* The main IIFE *)

\* out() has resolved: the result is written to stdout
Main ==
    /\ pc = "returned"
    /\ stdout' = Append(stdout, result.data)
    /\ Exit(EXIT_OK, IF result.cleanupCallback # Undefined THEN <<"Cleaning up...">> ELSE <<>>)
    /\ UNCHANGED <<inputs, parsed, repos, disk, chart, spawned, net>>

\* out() has rejected
MainCatch ==
    /\ pc = "threw"
    /\ Exit(EXIT_UNEXPECTED, <<"An unexpected error occured.", JSONstringify(thrown)>>)
    /\ UNCHANGED <<inputs, parsed, repos, disk, chart, spawned, net, stdout>>

Next ==
    \/ CheckArgs
    \/ RetrieveRequest
    \/ ResolveVersion
    \/ CheckVersionRange
    \/ AddHelmRepo
    \/ LstatChart
    \/ LoadChartInfo
    \/ PrepareSigning
    \/ SpawnGpg
    \/ SettleImport
    \/ HelmPackage
    \/ HelmInspect
    \/ Upload
    \/ CheckPostResult
    \/ FetchChartInfo
    \/ VerifyVersion
    \/ Main
    \/ MainCatch

Spec == Init /\ [][Next]_vars

---------------------------------------------------------------------------
(* The `in` operation (the main IIFE of in.ts) on the same process state:  *)
(* pc walks through its stages, disk holds the files written into the     *)
(* destination directory.                                                  *)

EXIT_IN_ARGS == 2

\* the InRequest: source.harbor_api, basic auth, version.version and
\* params.target_basename (a request without params behaves as one without
\* target_basename)
InRequests ==
    [ harbor_api : Flags, basic_auth_username : BOOLEAN, basic_auth_password : BOOLEAN,
      version : {Str(v) : v \in SemVers},
      target_basename : {Undefined, "target"} ]
InStdinTexts == {Malformed} \cup {[json |-> r] : r \in InRequests}

\* the decoded metadata of a chart, flat (ChartMuseum) or nested (Harbor)
InChartJsons ==
    { [name |-> "chart", version |-> v, digest |-> "digest", created |-> "created",
       description |-> "description", appVersion |-> "appVersion", home |-> "home",
       tillerVersion |-> "tillerVersion", metadata |-> Null] : v \in {Str(s) : s \in SemVers} }
    \cup
    { [name |-> Undefined, version |-> Null, digest |-> Undefined, created |-> Undefined,
       description |-> Undefined, appVersion |-> Undefined, home |-> Undefined,
       tillerVersion |-> Undefined,
       metadata |-> [name |-> "chart", version |-> v, digest |-> "digest",
                     created |-> "created", description |-> "description"]] :
           v \in {Str(s) : s \in SemVers} }

\* the JSON body of an answer with an error status, {"error": "not found"}:
\* it has none of the fields of a chart
InErrorJson ==
    [name |-> Undefined, version |-> Null, digest |-> Undefined, created |-> Undefined,
     description |-> Undefined, appVersion |-> Undefined, home |-> Undefined,
     tillerVersion |-> Undefined, metadata |-> Null]

\* the status class of an answer: chartResp.ok, tgzResp.ok, provResp.ok, or
\* no answer at all
Answers == {"2xx", "non-2xx"}
NoAnswer == "none"

\* what the server sends for the archive and the provenance file: the file,
\* or the page of an error status
DownloadBody(answer) == IF answer = "2xx" THEN "file" ELSE "error page"

\* the decoded bodies a metadata answer can have
MetadataBodies(answer) == IF answer = "2xx" THEN InChartJsons ELSE {InErrorJson}

\* the exit status of a process whose main promise rejected without a
\* handler: 0 (a warning only) or 1, by the version of the runtime
UnhandledRejectionCodes == {0, 1}

\* params.target_basename is never looked at
targetBasename_Default(req, json) ==
    IF req.harbor_api = "true"
    THEN Base(json.metadata.name, json.metadata.version)
    ELSE Base(json.name, json.version)

\* let targetBasename: <name>-<version> of the fetched metadata unless
\* params.target_basename is given
targetBasename(req, json) ==
    IF req.target_basename # Undefined
    THEN Base(req.target_basename, Null)
    ELSE IF req.harbor_api = "true"
    THEN Base(json.metadata.name, json.metadata.version)
    ELSE Base(json.name, json.version)

\* the InResponse, by dialect
InResponse(req, json) ==
    IF req.harbor_api = "true"
    THEN [version |-> [version |-> json.metadata.version, digest |-> json.metadata.digest],
          metadata |-> << Field("created", json.metadata.created),
                          Field("description", json.metadata.description) >>]
    ELSE [version |-> [version |-> json.version, digest |-> json.digest],
          metadata |-> << Field("created", json.created),
                          Field("description", json.description),
                          Field("appVersion", json.appVersion),
                          Field("home", json.home),
                          Field("tillerVersion", json.tillerVersion) >>]

\* path.resolve(destination, `${targetBasename}${ext}`) and what is in it
DestFile(base, ext, content) ==
    [path |-> "destination", base |-> base, ext |-> ext, content |-> content]

\* what `in` never touches
outOnly == <<version, repos, chart, spawned, postResult, postResultJson, result>>

InitIn ==
    /\ pc = "in:start"
    /\ \/ argvLength = 3 /\ stdin \in InStdinTexts
       \/ argvLength \in {2, 4} /\ stdin = Malformed
    /\ request = Null
    /\ headers = NoHeaders
    /\ version = Null
    /\ repoIdx = 0
    /\ helmRepos = {}
    /\ disk = {}
    /\ chartInfo = Null
    /\ cmd = Null
    /\ keyFile = Undefined
    /\ gpgResult = Null
    /\ archive = Null
    /\ chartFile = Null
    /\ chartFileStat = Null
    /\ cleanupCallback = Undefined
    /\ spawned = <<>>
    /\ http = <<>>
    /\ postResult = Null
    /\ postResultJson = Null
    /\ chartJson = Null
    /\ result = Null
    /\ stdout = <<>>
    /\ stderr = <<>>
    /\ exitCode = 0
    /\ thrown = Null

\* the promise of the main IIFE rejects with e
InReject(e) ==
    /\ pc' = "in:rejected"
    /\ thrown' = e
    /\ UNCHANGED <<stderr, exitCode>>

\* a GET request of `in`
InGet(url, v, h, answer) ==
    [method |-> "GET", url |-> url, force |-> FALSE, version |-> v, headers |-> h,
     body |-> Null, answer |-> answer]

\* in, the check of process.argv
InCheckArgs ==
    /\ pc = "in:start"
    /\ IF argvLength # 3
       THEN Exit(EXIT_IN_ARGS, <<"Expected exactly one argument (destination)">>)
       ELSE Goto("in:stdin", <<>>)
    /\ UNCHANGED <<inputs, request, headers, disk, http, chartJson, stdout, outOnly>>

\* in, the request is read and parsed, the headers are built
InRetrieveRequest ==
    /\ pc = "in:stdin"
    /\ IF stdin = Malformed
       THEN InReject(Error("SyntaxError")) /\ UNCHANGED <<request, headers>>
       ELSE /\ request' = stdin.json
            /\ headers' = createFetchHeaders(stdin.json)
            /\ Goto("in:metadata", <<>>)
    /\ UNCHANGED <<inputs, disk, http, chartJson, stdout, outOnly>>

\* in, the metadata of the requested version is fetched and decoded; the
\* status of the answer is not looked at
InFetchMetadata ==
    /\ pc = "in:metadata"
    /\ \/ /\ http' = Append(http, InGet("server_url/chart_name/version", request.version,
                                        headers, NoAnswer))
          /\ InReject(Error("request failed"))
          /\ UNCHANGED chartJson
       \/ \E answer \in Answers :
            /\ http' = Append(http, InGet("server_url/chart_name/version", request.version,
                                          headers, answer))
            /\ \/ InReject(Error("invalid json response body")) /\ UNCHANGED chartJson
               \/ \E json \in MetadataBodies(answer) :
                    chartJson' = json /\ Goto("in:tgz", <<>>)
    /\ UNCHANGED <<inputs, request, headers, disk, stdout, outOnly>>

\* in, the archive is fetched and written, whatever the status of the answer
InFetchTgz ==
    /\ pc = "in:tgz"
    /\ IF request.harbor_api = "true" /\ chartJson.metadata = Null
       THEN /\ InReject(Error("TypeError: Cannot read property 'name' of undefined"))
            /\ UNCHANGED <<http, disk>>
       ELSE \/ /\ http' = Append(http, InGet("chart_name-version.tgz",
                                             FetchedVersion(request, chartJson), headers, NoAnswer))
               /\ InReject(Error("request failed"))
               /\ UNCHANGED disk
            \/ \E answer \in Answers :
                 /\ http' = Append(http, InGet("chart_name-version.tgz",
                                               FetchedVersion(request, chartJson), headers, answer))
                 /\ disk' = disk \cup {DestFile(targetBasename(request, chartJson), ".tgz",
                                                 DownloadBody(answer))}
                 /\ Goto("in:prov", <<>>)
    /\ UNCHANGED <<inputs, request, headers, chartJson, stdout, outOnly>>

\* in, the provenance file is fetched and written, whatever the status of
\* the answer
InFetchProv ==
    /\ pc = "in:prov"
    /\ \/ /\ http' = Append(http, InGet("chart_name-version.tgz.prov",
                                        FetchedVersion(request, chartJson), headers, NoAnswer))
          /\ InReject(Error("request failed"))
          /\ UNCHANGED disk
       \/ \E answer \in Answers :
            /\ http' = Append(http, InGet("chart_name-version.tgz.prov",
                                          FetchedVersion(request, chartJson), headers, answer))
            /\ disk' = disk \cup {DestFile(targetBasename(request, chartJson), ".tgz.prov",
                                            DownloadBody(answer))}
            /\ Goto("in:json", <<>>)
    /\ UNCHANGED <<inputs, request, headers, chartJson, stdout, outOnly>>

\* in, the metadata is written as JSON
InWriteJson ==
    /\ pc = "in:json"
    /\ disk' = disk \cup {DestFile(targetBasename(request, chartJson), ".json", "chartJson")}
    /\ Goto("in:respond", <<>>)
    /\ UNCHANGED <<inputs, request, headers, http, chartJson, stdout, outOnly>>

\* in, the response is written to stdout; the process ends with nothing
\* left to do
InRespond ==
    /\ pc = "in:respond"
    /\ stdout' = Append(stdout, InResponse(request, chartJson))
    /\ Exit(EXIT_OK, <<>>)
    /\ UNCHANGED <<inputs, request, headers, disk, http, chartJson, outOnly>>

\* in, the rejection of the main promise is handled by nobody
InUnhandledRejection ==
    /\ pc = "in:rejected"
    /\ \E code \in UnhandledRejectionCodes : Exit(code, <<"UnhandledPromiseRejection">>)
    /\ UNCHANGED <<inputs, request, headers, disk, http, chartJson, stdout, outOnly>>

NextIn ==
    \/ InCheckArgs
    \/ InRetrieveRequest
    \/ InFetchMetadata
    \/ InFetchTgz
    \/ InFetchProv
    \/ InWriteJson
    \/ InRespond
    \/ InUnhandledRejection

SpecIn == InitIn /\ [][NextIn]_vars

---------------------------------------------------------------------------
(* Properties of out() *)

SpawnsOf(prog) == {i \in 1..Len(spawned) : spawned[i].prog = prog}
Posts == {i \in 1..Len(http) : http[i].method = "POST"}
Gets == {i \in 1..Len(http) : http[i].method = "GET"}
Wrote(m) == \E i \in 1..Len(stderr) : stderr[i] = m
GpgHome == Entry("gpgHome", 0)
AfterArchive == {"inspect", "upload", "posted", "fetch", "verify", "returned"}

\* C1: the success payload is written to stdout at most once, only by a
\* run in which the repositories were registered, the archive exists and
\* was inspected, the upload was answered 201 with saved = true and no
\* error, and the fetched version equals the effective version; a run that
\* fails, or has not exited yet, has written nothing to stdout.
C1_PayloadOnlyAfterEveryStage ==
    /\ Len(stdout) <= 1
    /\ pc # "exit" => stdout = <<>>
    /\ (pc = "exit" /\ exitCode # EXIT_OK) => stdout = <<>>
    /\ (pc = "exit" /\ exitCode = EXIT_OK) => Len(stdout) = 1
    /\ stdout # <<>> =>
         /\ helmRepos = 1..Len(request.dependency_repos)
         /\ Cardinality(SpawnsOf("helm repo add")) = Len(request.dependency_repos)
         /\ archive # Null /\ chartFileStat.kind = "file"
         /\ chartFile.dir = "tmpDir" => Cardinality(SpawnsOf("helm package")) = 1
         /\ Cardinality(SpawnsOf("helm inspect chart")) = 1
         /\ version = archive.version
         /\ Cardinality(Posts) = 1
         /\ postResult.status = HTTP_CREATED
         /\ postResultJson.error = Undefined /\ postResultJson.saved = "true"
         /\ Cardinality(Gets) = 1
         /\ FetchedVersion(request, chartJson) = version
         /\ stdout = <<Response(request, chartJson)>>

\* a successful run of a signed directory chart with a registered repository
C1_Witness ==
    /\ pc = "exit" /\ exitCode = EXIT_OK /\ Len(stdout) = 1
    /\ chartFile.dir = "tmpDir"
    /\ request.dependency_repos # <<>>

\* C2: when the range check is reached with a known version V and a
\* configured range R, the run goes on to the dependency repositories if V
\* satisfies R, and otherwise exits with code 104 with no subprocess
\* spawned and no HTTP request sent.
C2_RangeCheckedBeforeAnyExternalAction ==
    [][ (pc = "range" /\ version # Null /\ request.version_range # Null) =>
          IF satisfies(version, request.version_range)
          THEN pc' = "repos" /\ exitCode' = exitCode
          ELSE pc' = "exit" /\ exitCode' = EXIT_RANGE /\ spawned' = <<>> /\ http' = <<>> ]_vars

\* params.version = "2.0.0" against ^1.0.0 has ended the run with code 104
C2_Witness ==
    /\ pc = "exit" /\ exitCode = EXIT_RANGE
    /\ request.version = Str(<<2, 0, 0>>) /\ ~request.version_file
    /\ request.version_range = [op |-> "^", v |-> <<1, 0, 0>>]
    /\ spawned = <<>> /\ http = <<>>

\* C3: with a configured range, every upload POST carries an archive whose
\* version satisfies the range.
C3_NoUploadOutsideRange ==
    \A i \in Posts :
        request.version_range # Null =>
            satisfies(http[i].body.content.version, request.version_range)

C5_SigningIffSignIsTrue ==
    pc \in AfterArchive => ((request.sign = "true") <=> (SpawnsOf("gpg --import") # {}))

\* C6: with sign true and not exactly one of key_data and key_file, no
\* subprocess is ever spawned and the run does not succeed.
C6_BadKeyConfigFailsBeforeAnySubprocess ==
    (request # Null /\ request.sign = "true" /\ (request.key_data <=> request.key_file)) =>
        /\ spawned = <<>>
        /\ pc \notin {"upload", "posted", "fetch", "verify", "returned"}
        /\ pc = "exit" => exitCode # EXIT_OK

\* C7: the keyring directory exists only while the key import is under way.
C7_KeyringGoneAfterSigner == GpgHome \in disk => pc \in {"import", "imported"}

\* a run that created the keyring, failed to import the key and has ended
C7_Witness ==
    /\ pc = "exit"
    /\ Wrote("Using new empty temporary GNUPGHOME")
    /\ Wrote("Importing of GPG key failed.")
    /\ GpgHome \notin disk

\* C8: when helm package is about to run with the signing switches, the
\* keyring directory exists.
C8_KeyringExistsWhilePackaging == (pc = "package" /\ cmd.sign) => GpgHome \in disk

IdNotFound ==
    { StringError("Unable to determine Key ID after successful import: Line with key ID not found."),
      StringError("Unable to determine Key ID after successful import: Regex match failure.") }
ImportFailed == Error("gpg import returned exit code")
NoKeyLine(res) == \A i \in 1..Len(res.stderr) : ~MatchesKeyLine(res.stderr[i])

\* C9: an import that exits 0 without a key line makes out() reject with
\* an identifier-not-found message, a nonzero exit makes it reject with
\* another value that is printed differently; in both cases the keyring
\* is removed, helm package and the upload never run, nothing is written to
\* stdout and the process exits with the value printed last.
C9_ImportWithoutKeyIdFails ==
    /\ [][ (pc = "imported" /\ gpgResult.code = 0 /\ NoKeyLine(gpgResult)) =>
             (pc' = "threw" /\ thrown' \in IdNotFound /\ GpgHome \notin disk') ]_vars
    /\ [][ (pc = "imported" /\ gpgResult.code # 0) =>
             /\ pc' = "threw" /\ thrown' = ImportFailed /\ GpgHome \notin disk'
             /\ \A e \in IdNotFound : JSONstringify(thrown') # JSONstringify(e) ]_vars
    /\ [](thrown \in IdNotFound \cup {ImportFailed} =>
             /\ SpawnsOf("helm package") = {} /\ http = <<>> /\ stdout = <<>>
             /\ GpgHome \notin disk
             /\ pc \in {"threw", "exit"}
             /\ pc = "exit" => /\ exitCode = EXIT_UNEXPECTED
                               /\ stderr[Len(stderr)] = JSONstringify(thrown))

\* key_data given, gpg exited 0 without a key line, the run has ended
C9_Witness ==
    /\ pc = "exit" /\ exitCode = EXIT_UNEXPECTED
    /\ thrown \in IdNotFound
    /\ request.sign = "true" /\ request.key_data
    /\ GpgHome \notin disk

\* C10: the upload has a multipart body with the one field chart and
\* neither Content-Length nor Content-Disposition when harbor_api is true,
\* and otherwise the file stream with Content-Length the size of the
\* archive sent and Content-Disposition its base name.
C10_UploadShapeByDialect ==
    \A i \in Posts :
        LET r == http[i]
        IN  /\ r.body.file = chartFile /\ r.body.content = archive
            /\ IF request.harbor_api = "true"
               THEN /\ r.body.kind = "multipart" /\ r.body.fields = <<"chart">>
                    /\ r.headers.ContentLength = Null
                    /\ r.headers.ContentDisposition = Null
               ELSE /\ r.body.kind = "stream"
                    /\ r.headers.ContentLength = String(r.body.content.size)
                    /\ r.headers.ContentDisposition = [filename |-> r.body.file.base]

\* a forced, authorised plain upload of a packaged archive of two bytes
C10_Witness ==
    \E i \in Posts :
        /\ request.harbor_api = "false"
        /\ request.basic_auth_username /\ request.basic_auth_password
        /\ http[i].force
        /\ http[i].body.file.dir = "tmpDir" /\ http[i].body.content.size = 2

C12_CreatedBodyMustBeErrorFreeAndSaved ==
    /\ EXIT_UPLOAD_ERROR # EXIT_NOT_SAVED
    /\ postResultJson # Null =>
         /\ postResult.status = HTTP_CREATED
         /\ postResultJson.error # Undefined =>
              pc = "exit" /\ exitCode = EXIT_UPLOAD_ERROR /\ Gets = {} /\ stdout = <<>>
         /\ (postResultJson.error = Undefined /\ postResultJson.saved # "true") =>
              pc = "exit" /\ exitCode = EXIT_NOT_SAVED /\ Gets = {} /\ stdout = <<>>
    /\ (Gets # {} \/ pc \in {"fetch", "verify", "returned"}) =>
         /\ postResultJson # Null
         /\ postResultJson.error = Undefined /\ postResultJson.saved = "true"

\* 201 with saved = false has ended the run with 603
C12_Witness ==
    /\ pc = "exit" /\ exitCode = EXIT_NOT_SAVED
    /\ postResult.status = HTTP_CREATED
    /\ postResultJson.saved = "false"

\* C13: the verification lets the run succeed only when the version of the
\* fetched metadata, read at the place the dialect names, equals the
\* effective version; any other value at that place (a missing one too)
\* ends the run with 203 and without payload, a body without the place
\* makes out() reject without payload; the version of the payload written
\* equals the effective version.
C13_FetchedVersionMustEqualEffective ==
    /\ [][ pc = "verify" =>
             IF request.harbor_api = "true" /\ chartJson.metadata = Null
             THEN pc' = "threw" /\ result' = Null /\ stdout' = <<>>
             ELSE IF FetchedVersion(request, chartJson) = version
             THEN pc' = "returned" /\ result'.data.version.version = version
             ELSE pc' = "exit" /\ exitCode' = EXIT_MISMATCH /\ result' = Null /\ stdout' = <<>> ]_vars
    /\ [](stdout # <<>> =>
             /\ stdout[1].version.version = version
             /\ FetchedVersion(request, chartJson) = version
             /\ version = archive.version)
    /\ []((pc = "exit" /\ exitCode = EXIT_MISMATCH) => (stdout = <<>> /\ result = Null))

\* the upload was accepted, the metadata fetched names another version
C13_Witness ==
    /\ pc = "exit" /\ exitCode = EXIT_MISMATCH
    /\ postResultJson.saved = "true"
    /\ chartJson # Null /\ chartJson.version # Null
    /\ chartJson.version # version

\* C14: a run that has ended is observed with exit status 0 exactly when
\* it wrote the success payload; every other run is observed with a
\* nonzero status.
C14_FailureObservedNonzero ==
    pc = "exit" => ((ExitStatus(exitCode) = 0) <=> (stdout # <<>>))

\* the diagnostic of the stage that owns an exit code (a code that no
\* stage owns is an HTTP status handed on by the upload)
StageOfCode(c) ==
    CASE c = EXIT_ARGS -> "Expected exactly one argument (root)"
      [] c = EXIT_STDIN -> "Unable to retrieve JSON data from stdin."
      [] c = EXIT_RANGE -> "params.version does not satisfy contents of source.version_range"
      [] c = EXIT_REPO_ADD -> "Adding Helm Repo failed."
      [] c = EXIT_NO_KEY -> "Either key_data or key_file must be specified, when 'sign' is set to true."
      [] c = EXIT_PACKAGE -> "Packaging of chart file failed."
      [] c = EXIT_NOT_FOUND -> "Chart file not found."
      [] c = EXIT_INSPECT -> "Unable to inspect Helm Chart file"
      [] c = EXIT_UPLOAD -> "Upload of chart file has failed."
      [] c = EXIT_UPLOAD_ERROR -> "An error occured while uploading the chart (error)"
      [] c = EXIT_NOT_SAVED -> "Helm chart has not been saved."
      [] c = EXIT_FETCH -> "Download of chart information failed."
      [] c = EXIT_MISMATCH -> "Version mismatch in uploaded Helm Chart."
      [] OTHER -> "An error occured while uploading the chart (status)"

\* the run failed in one of the stages with an exit of its own, or in the
\* key import
ListedStageFailed ==
    /\ pc = "exit" /\ stdout = <<>>
    /\ thrown = Null \/ thrown \in IdNotFound \cup {ImportFailed}

\* C15: the exit code of a failed run names the stage that failed: the run
\* wrote the diagnostic of the one stage that owns the code, and the code
\* is not the generic code of the top level.
C15_ExitCodeNamesTheStage ==
    ListedStageFailed =>
        /\ exitCode # EXIT_UNEXPECTED
        /\ Wrote(StageOfCode(exitCode))

\* the place of a subprocess in the order of the stages
StageRank(prog) ==
    CASE prog = "helm repo add" -> 1
      [] prog = "gpg --import" -> 2
      [] prog = "helm package" -> 3
      [] prog = "helm inspect chart" -> 4

\* C16: subprocesses are spawned in the order registration, key import,
\* packaging, inspection, and none before the version is resolved and the
\* range checked; key import and packaging start only when every
\* repository is registered, packaging only when the import has settled;
\* the POST is sent only after a successful inspection, the GET only
\* after the POST was answered 201 with an accepted body.
C16_StagesInOrder ==
    /\ \A i, j \in 1..Len(spawned) :
         i < j => StageRank(spawned[i].prog) <= StageRank(spawned[j].prog)
    /\ spawned # <<>> => pc \notin {"start", "stdin", "version", "range"}
    /\ (SpawnsOf("gpg --import") \cup SpawnsOf("helm package") # {}) =>
         /\ repoIdx = Len(request.dependency_repos)
         /\ helmRepos = 1..Len(request.dependency_repos)
    /\ pc \in {"import", "imported"} => SpawnsOf("helm package") = {}
    /\ SpawnsOf("helm inspect chart") # {} => archive # Null
    /\ pc \in {"start", "stdin", "version", "range", "repos", "dir", "sign", "import",
               "imported", "package", "inspect", "upload"} => http = <<>>
    /\ Posts # {} =>
         /\ Cardinality(SpawnsOf("helm inspect chart")) = 1
         /\ version = archive.version
         /\ ~Wrote("Unable to inspect Helm Chart file")
         /\ ~Wrote("Unable to parse version information from Helm Chart inspection result.")
    /\ \A i \in Gets :
         /\ i = 2 /\ Posts = {1}
         /\ postResult.status = HTTP_CREATED
         /\ postResultJson # Null /\ postResultJson.saved = "true"

\* a run through every stage: registration, import, packaging, inspection,
\* upload, verification
C16_Witness ==
    /\ Len(spawned) = 4 /\ Len(http) = 2
    /\ spawned[1].prog = "helm repo add" /\ spawned[2].prog = "gpg --import"
    /\ spawned[3].prog = "helm package" /\ spawned[4].prog = "helm inspect chart"
    /\ pc = "verify"

\* C17: helm repo add is run once per repository, in the order of the
\* request; when the run ends with 193 the command that failed is the last
\* subprocess, the repositories before it are registered and stay so, the
\* ones after it were never tried, nothing was packaged, inspected or
\* uploaded; no step ever unregisters a repository.
C17_RegistrationStopsAtFirstFailure ==
    /\ [](\A i \in SpawnsOf("helm repo add") :
             /\ i <= Len(request.dependency_repos)
             /\ spawned[i] = addCmd(request.dependency_repos[i], i))
    /\ []((pc = "exit" /\ exitCode = EXIT_REPO_ADD) =>
             LET k == Len(spawned)
             IN  /\ k >= 1 /\ k = repoIdx + 1
                 /\ SpawnsOf("helm repo add") = 1..k
                 /\ helmRepos = 1..(k - 1)
                 /\ archive = Null /\ http = <<>> /\ stdout = <<>>)
    /\ [][helmRepos \subseteq helmRepos']_vars

\* the second registration failed: the first repository stays registered
C17_Witness ==
    /\ pc = "exit" /\ exitCode = EXIT_REPO_ADD
    /\ Len(request.dependency_repos) = 2
    /\ helmRepos = {1} /\ Len(spawned) = 2

---------------------------------------------------------------------------
(* Properties of in *)

InExtensions == {".tgz", ".tgz.prov", ".json"}

\* C18: every file `in` writes lies in the destination directory, is named
\* <b>.tgz, <b>.tgz.prov or <b>.json, with b the target_basename of the
\* request when given and else <name>-<version> of the fetched metadata at
\* the place the dialect names; when the response is on stdout (written
\* once) exactly these three files exist.
C18_ThreeFilesOneBasename ==
    /\ Len(stdout) <= 1
    /\ disk # {} => chartJson # Null
    /\ \A f \in disk :
         /\ f.path = "destination"
         /\ f.ext \in InExtensions
         /\ f.base = IF request.target_basename # Undefined
                     THEN Base(request.target_basename, Null)
                     ELSE IF request.harbor_api = "true"
                     THEN Base(chartJson.metadata.name, chartJson.metadata.version)
                     ELSE Base(chartJson.name, chartJson.version)
    /\ stdout # <<>> =>
         /\ Cardinality(disk) = 3
         /\ {f.ext : f \in disk} = InExtensions
         /\ Cardinality({f.base : f \in disk}) = 1

\* a run of `in` with target_basename has written its three files and the
\* response
C18_Witness ==
    /\ pc = "exit" /\ Len(stdout) = 1
    /\ request.target_basename = "target"
    /\ request.harbor_api = "true"
    /\ Cardinality(disk) = 3

---------------------------------------------------------------------------
(* Properties of out(), continued *)

\* the names of a metadata list, in order
Names(metadata) == [i \in 1..Len(metadata) |-> metadata[i].name]

\* C19: the payload written lists created, description, appVersion, home,
\* tillerVersion in this order for the plain dialect and created,
\* description, appVersion for the Harbor dialect; version and digest, and
\* created and description, are those of the fetched metadata at the place
\* the dialect names.
C19_PayloadShapeByDialect ==
    stdout # <<>> =>
        LET p == stdout[1]
            m == IF request.harbor_api = "true" THEN chartJson.metadata ELSE chartJson
        IN  /\ Names(p.metadata) =
                 IF request.harbor_api = "true"
                 THEN <<"created", "description", "appVersion">>
                 ELSE <<"created", "description", "appVersion", "home", "tillerVersion">>
            /\ p.version = [version |-> m.version, digest |-> m.digest]
            /\ m.version # Null /\ m.digest # Undefined
            /\ p.metadata[1].value = m.created
            /\ p.metadata[2].value = m.description

\* a payload of the Harbor dialect has been written
C19_Witness ==
    /\ Len(stdout) = 1
    /\ request.harbor_api = "true"
    /\ Len(stdout[1].metadata) = 3
    /\ stdout[1].version.digest = "digest"

\* C20: the version resolution never fails; without version_file it leaves
\* params.version (or nothing) as the version, with version_file the
\* version is params.version when the file is no regular file and else a
\* text without line breaks around it.
C20_VersionFileTrimmedAndHarmless ==
    [][ pc = "version" =>
          /\ pc' = "range"
          /\ ~request.version_file => version' = request.version
          /\ request.version_file =>
               \/ version' = request.version
               \/ version' # Null /\ version'.nl = 0 ]_vars

\* the files with TLS material of the dependency repositories that exist
StagedTlsFiles ==
    {e \in disk : e.path \in {"caDir/ca.pem", "tlsDir/cert.pem", "tlsDir/key.pem"}}

\* C21: when helm package is about to run, and when the run has ended, no
\* file with staged TLS material of a dependency repository exists.
C21_TlsMaterialDiscarded == pc \in {"package", "exit"} => StagedTlsFiles = {}

\* C22: the temporary directory helm package writes into exists while the
\* archive in it is uploaded and verified, and exists no longer when the
\* run has ended.
C22_TmpDirReleasedOnExit ==
    /\ (pc \in {"upload", "posted", "fetch", "verify"} /\ chartFile.dir = "tmpDir") =>
         Entry("tmpDir", 0) \in disk
    /\ pc = "exit" => Entry("tmpDir", 0) \notin disk

\* C23: a run sends at most one POST and at most one GET, runs gpg, helm
\* package and helm inspect at most once each and helm repo add at most
\* once per repository; once a stage has failed no subprocess is spawned
\* and no request is sent any more.
C23_NothingIsRetried ==
    /\ [](/\ Cardinality(Posts) <= 1 /\ Cardinality(Gets) <= 1
          /\ \A prog \in {"gpg --import", "helm package", "helm inspect chart"} :
               Cardinality(SpawnsOf(prog)) <= 1
          /\ \A i, j \in SpawnsOf("helm repo add") : spawned[i].n = spawned[j].n => i = j)
    /\ [][ (pc \in {"exit", "threw"}) => (spawned' = spawned /\ http' = http) ]_vars

\* the upload failed on the network after one attempt and the run has ended
C23_Witness ==
    /\ pc = "exit" /\ exitCode = EXIT_UPLOAD
    /\ Cardinality(Posts) = 1 /\ Len(http) = 1
    /\ postResult = Null

\* C24: when params.chart is a regular file, neither gpg nor helm package
\* is run and no packaging temp directory is made; helm inspect is run on
\* that file, and the upload sends that file: its path, its contents and,
\* in the plain dialect, its size as Content-Length.
C24_ArchiveFileUsedVerbatim ==
    (chartFile # Null /\ chartFile.dir = "chartLocation") =>
        /\ chartFile = File("chartLocation", Base("chartLocation", Null))
        /\ SpawnsOf("helm package") = {} /\ SpawnsOf("gpg --import") = {}
        /\ \A e \in disk : e.path \notin {"tmpDir", "tmpDir/archive", "tmpDir/gpg-key.asc", "gpgHome"}
        /\ cleanupCallback = Undefined
        /\ chartFileStat = [kind |-> "file", size |-> archive.size]
        /\ \A i \in SpawnsOf("helm inspect chart") : spawned[i].file = chartFile
        /\ \A i \in Posts :
             /\ http[i].body.file = chartFile
             /\ http[i].body.content = archive
             /\ request.harbor_api # "true" =>
                  http[i].headers.ContentLength = String(archive.size)

\* an archive file of two bytes has been inspected and uploaded
C24_Witness ==
    /\ Posts # {} /\ SpawnsOf("helm inspect chart") # {}
    /\ chartFile.dir = "chartLocation"
    /\ request.harbor_api # "true"
    /\ archive.size = 2

\* C25: the verification GET asks for server_url/chart_name/<the
\* effective version>, has no body, carries neither Content-Length nor
\* Content-Disposition, and carries Authorization exactly when the user
\* name and the password of basic auth are both given.
C25_VerificationRequestIsFresh ==
    \A i \in Gets :
        /\ http[i].url = "server_url/chart_name/version"
        /\ http[i].version = version /\ version = archive.version
        /\ http[i].body = Null /\ ~http[i].force
        /\ http[i].headers.ContentLength = Null
        /\ http[i].headers.ContentDisposition = Null
        /\ (http[i].headers.Authorization # Undefined) <=>
              (request.basic_auth_username /\ request.basic_auth_password)

\* a GET without Authorization after an upload that carried Content-Length,
\* for a request with a user name and no password
C25_Witness ==
    /\ Gets = {2}
    /\ http[1].headers.ContentLength # Null
    /\ request.basic_auth_username /\ ~request.basic_auth_password
    /\ http[2].headers.Authorization = Undefined

\* C26: when the chart is looked at, the run goes on with a directory or a
\* regular file, and ends with 110 for everything else, a path that does
\* not exist included, without packaging, inspecting or uploading.
C26_MissingChartIsNotFound ==
    [][ (pc = "repos" /\ repoIdx = Len(request.dependency_repos)) =>
          \/ pc' \in {"dir", "inspect"}
          \/ /\ pc' = "exit" /\ exitCode' = EXIT_NOT_FOUND
             /\ spawned' = spawned /\ http' = <<>> ]_vars

---------------------------------------------------------------------------
(* Properties of in, continued *)

\* the requests of `in` that were answered with an error status
FailedFetches == {i \in 1..Len(http) : http[i].answer = "non-2xx"}

\* C27: a fetch of `in` answered with an error status is the last request
\* of the run; the page of the error is not written as .tgz or .tgz.prov,
\* nothing is written to stdout, and the run ends with a nonzero status.
C27_InTransportFailureIsTerminal ==
    FailedFetches # {} =>
        /\ FailedFetches = {Len(http)}
        /\ \A f \in disk : f.content # "error page"
        /\ stdout = <<>>
        /\ pc = "exit" => ExitStatus(exitCode) # 0
====
